---- MODULE Spec2Model ----
(***************************************************************************)
(* Model of the nginx Terraform provider: the resources Site, Config,      *)
(* Proxy and API of the plugin-framework provider and the SDK resource     *)
(* nginx_config, each driving one configuration file on a remote host      *)
(* through shell commands run over SSH sessions.                           *)
(*                                                                         *)
(* A Go string is modelled as a sequence of lexemes: every shell           *)
(* metacharacter (quote, semicolon, blank, tab, newline, bar, redirect,    *)
(* dollar, backslash) is a lexeme of its own and every maximal run of      *)
(* other characters is one lexeme.  The remote host is a POSIX shell       *)
(* interpreting the command string over a file system.                     *)
(***************************************************************************)
EXTENDS Integers, Sequences, FiniteSets, TLC

VARIABLES
    kind,    \* which resource type the tracked object belongs to
    state,   \* Terraform state of the object: [tracked, data]
    fs,      \* files of the remote host: file name -> content
    last,    \* outcome of the most recent handler call (response + remote log)
    client,  \* whether the provider has handed an SSH client to the resources
    blocked, \* the operation whose handler waits for its command, or "none"
    calls,   \* handler calls running side by side: caller -> [pc, session]
    sessions,\* sessions opened on the connection, in the order of their opening
    rendering, \* two parameter tuples and the blocks rendered from them
    provider,\* the provider configuration last applied and what Configure answered
    handle,  \* the client handle of the resource serving the latest request
    pair     \* two objects of one kind served side by side, and each one served alone

vars == <<kind, state, fs, last, client, blocked, calls, sessions, rendering, provider, handle, pair>>

----------------------------------------------------------------------------
(* Strings                                                                 *)

SQ == "'"
BS == "\\"
NL == "\n"
TAB == "\t"
SP == " "

\* A value computed once and then used: F applied to the value of v
Bind(v, F(_)) == CHOOSE y \in {F(x) : x \in {v}} : TRUE

\* strings.Join(words, " ") over lexeme sequences
RECURSIVE JoinSp(_)
JoinSp(ws) ==
    IF ws = <<>> THEN <<>>
    ELSE IF Len(ws) = 1 THEN ws[1]
    ELSE ws[1] \o <<SP>> \o JoinSp(Tail(ws))

IsSpace(c) == c \in {SP, NL, TAB}

\* strings.TrimSpace
RECURSIVE TrimLeft(_)
TrimLeft(s) == IF s # <<>> /\ IsSpace(Head(s)) THEN TrimLeft(Tail(s)) ELSE s

RECURSIVE TrimRight(_)
TrimRight(s) ==
    IF s # <<>> /\ IsSpace(s[Len(s)]) THEN TrimRight(SubSeq(s, 1, Len(s) - 1)) ELSE s

TrimSpace(s) == TrimRight(TrimLeft(s))

\* types.String: a null flag and a value; ValueString() of null is ""
NullStr == [null |-> TRUE, v |-> <<>>]
Str(s) == [null |-> FALSE, v |-> s]
ValueString(x) == x.v

\* types.Int64; ValueInt64() of null is 0
NullInt == [null |-> TRUE, v |-> 0]
Int64(n) == [null |-> FALSE, v |-> n]
ValueInt64(x) == x.v

----------------------------------------------------------------------------
(* Rendering and escaping                                                  *)

\* fmt.Sprintf("%d", n): the decimal digits of n as one lexeme
FormatInt(n) == ToString(n)

\* The server block built by fmt.Sprintf in Create and Update of the
\* Config, Proxy and API resources (a raw string literal, tab-indented,
\* starting with a newline and ending with the closing brace).
Render(listenPort, serverName, root) ==
    <<NL, TAB, "server", SP, "{", NL,
      TAB, TAB, "listen", SP, FormatInt(listenPort), ";", NL,
      TAB, TAB, "server_name", SP>> \o serverName \o <<";", NL,
      NL,
      TAB, TAB, "root", SP>> \o root \o <<";", NL,
      TAB, TAB, "index", SP, "index.html", ";", NL,
      NL,
      TAB, TAB, "location", SP, "/", SP, "{", NL,
      TAB, TAB, TAB, "try_files", SP, "$", "uri", SP, "$", "uri", "/", SP, "=404", ";", NL,
      TAB, TAB, "}", NL,
      TAB, "}">>

\* shellEscape is called by the Config, Proxy and API resources but is not
\* defined in the sources at hand; it is modelled as the escaping the
\* specification requires for a string placed between single quotes:
\* every single quote becomes  '\''  .
FirstIndex(s, c, from) ==
    LET hits == {j \in from..Len(s) : s[j] = c}
    IN IF hits = {} THEN 0 ELSE CHOOSE j \in hits : \A h \in hits : j <= h

RECURSIVE shellEscape(_)
shellEscape(s) ==
    LET j == FirstIndex(s, SQ, 1)
    IN  IF j = 0 THEN s
        ELSE SubSeq(s, 1, j - 1) \o <<SQ, BS, SQ, SQ>> \o shellEscape(SubSeq(s, j + 1, Len(s)))

----------------------------------------------------------------------------
(* The remote shell: sh -c <command> as run by an SSH exec request         *)

Word(w, q) == [t |-> "w", v |-> w, q |-> q]
Op(o) == [t |-> "op", v |-> <<o>>, q |-> FALSE]
SyntaxError == [t |-> "err", v |-> <<>>, q |-> FALSE]

\* Names of shell variables; none of them is set in the session.
ShellVars == {"uri"}

\* The scanner's state: mode "u" outside quotes, "q" inside single quotes,
\* "e" after an unquoted backslash, "d" after an unquoted dollar; cur is the
\* word being read, has tells that a word has begun, q that part of it was
\* quoted, toks the tokens read so far.
Lex0 == [mode |-> "u", cur |-> <<>>, has |-> FALSE, q |-> FALSE, toks |-> <<>>]

Flush(st) == IF st.has THEN Append(st.toks, Word(st.cur, st.q)) ELSE st.toks

EndWord(st, ops) ==
    [mode |-> "u", cur |-> <<>>, has |-> FALSE, q |-> FALSE, toks |-> Flush(st) \o ops]

\* One character read outside quotes
LexPlain(st, c) ==
    CASE c = SQ -> [st EXCEPT !.mode = "q", !.has = TRUE, !.q = TRUE]
      [] c = BS -> [st EXCEPT !.mode = "e"]
      [] c = "$" -> [st EXCEPT !.mode = "d"]
      [] c \in {SP, TAB} -> EndWord(st, <<>>)
      [] c \in {";", NL} -> EndWord(st, <<Op(";")>>)
      [] c \in {"|", ">"} -> EndWord(st, <<Op(c)>>)
      [] OTHER -> [st EXCEPT !.cur = Append(@, c), !.has = TRUE]

\* Token recognition, one character at a time: words are split at unquoted
\* blanks, a single quote opens a literal section up to the next single
\* quote, an unquoted backslash makes the next character literal, unquoted
\* ; and newline end a command, | and > are operators, $name expands to
\* the empty string (no variable is set).
LexStep(st, c) ==
    CASE st.mode = "q" ->
            IF c = SQ THEN [st EXCEPT !.mode = "u"] ELSE [st EXCEPT !.cur = Append(@, c)]
      [] st.mode = "e" ->
            [st EXCEPT !.mode = "u", !.cur = Append(@, c), !.has = TRUE, !.q = TRUE]
      [] st.mode = "d" ->
            IF c \in ShellVars THEN [st EXCEPT !.mode = "u"]
            ELSE LexPlain([st EXCEPT !.mode = "u", !.cur = Append(@, "$"), !.has = TRUE], c)
      [] OTHER -> LexPlain(st, c)

\* LexStep folded over s[lo..hi], by halves; the state after the left half
\* is computed before the right half is entered
RECURSIVE LexFold(_, _, _, _)
LexFold(s, lo, hi, st) ==
    IF lo > hi THEN st
    ELSE IF lo = hi THEN LexStep(st, s[lo])
    ELSE Bind(LexFold(s, lo, (lo + hi) \div 2, st),
              LAMBDA left : LexFold(s, ((lo + hi) \div 2) + 1, hi, left))

\* The tokens of a command line; a quote left open at its end is a syntax
\* error, a backslash or dollar at its end stands for itself.
LexEnd(st) ==
    CASE st.mode = "q" -> <<SyntaxError>>
      [] st.mode = "e" -> Flush([st EXCEPT !.cur = Append(@, BS), !.has = TRUE])
      [] st.mode = "d" -> Flush([st EXCEPT !.cur = Append(@, "$"), !.has = TRUE])
      [] OTHER -> Flush(st)

Tokens(s) == Bind(LexFold(s, 1, Len(s), Lex0), LAMBDA st : LexEnd(st))

IsOp(tok, o) == tok.t = "op" /\ tok.v = <<o>>

\* Split a token list at every occurrence of the operator o
RECURSIVE SplitAt(_, _, _, _)
SplitAt(toks, o, cur, acc) ==
    IF toks = <<>> THEN Append(acc, cur)
    ELSE IF IsOp(Head(toks), o) THEN SplitAt(Tail(toks), o, <<>>, Append(acc, cur))
    ELSE SplitAt(Tail(toks), o, Append(cur, Head(toks)), acc)

\* A reserved word is recognised only unquoted and first in its command
StartsWith(c, w) == c # <<>> /\ c[1].t = "w" /\ ~c[1].q /\ c[1].v = <<w>>

FirstFrom(cs, w, from) ==
    LET hits == {j \in from..Len(cs) : StartsWith(cs[j], w)}
    IN IF hits = {} THEN 0 ELSE CHOOSE j \in hits : \A h \in hits : j <= h

\* The file system of the host: a function from file names to contents
Exists(files, name) == name \in DOMAIN files
WriteFile(files, name, data) ==
    [n \in DOMAIN files \cup {name} |-> IF n = name THEN data ELSE files[n]]
RemoveFiles(files, names) == [n \in DOMAIN files \ names |-> files[n]]

Range(seq) == {seq[i] : i \in 1..Len(seq)}

RECURSIVE CatFiles(_, _)
CatFiles(files, names) ==
    IF names = <<>> THEN <<>>
    ELSE (IF Exists(files, Head(names)) THEN files[Head(names)] ELSE <<>>)
         \o CatFiles(files, Tail(names))

RECURSIVE WriteAll(_, _, _)
WriteAll(files, names, data) ==
    IF names = <<>> THEN files
    ELSE WriteAll(WriteFile(files, Head(names), data), Tail(names), data)

\* test EXPR, after the closing ] of [ has been removed
TestStatus(files, args) ==
    IF Len(args) = 0 THEN 1
    ELSE IF Len(args) = 1 THEN (IF args[1] = <<>> THEN 1 ELSE 0)
    ELSE IF Len(args) = 2 /\ args[1] = <<"-f">> THEN (IF Exists(files, args[2]) THEN 0 ELSE 1)
    ELSE 2

\* One utility with its arguments: the new files, its standard output and
\* its exit status.
Utility(argv, stdin, files) ==
    LET name == argv[1]
        args == Tail(argv)
    IN  IF name = <<"echo">> THEN
            [fs |-> files, out |-> JoinSp(args) \o <<NL>>, st |-> 0]
        ELSE IF name = <<"tee">> THEN
            [fs |-> WriteAll(files, args, stdin), out |-> stdin, st |-> 0]
        ELSE IF name = <<"cat">> THEN
            IF args = <<>> THEN [fs |-> files, out |-> stdin, st |-> 0]
            ELSE [fs |-> files, out |-> CatFiles(files, args),
                  st |-> IF \A a \in Range(args) : Exists(files, a) THEN 0 ELSE 1]
        ELSE IF name = <<"rm">> THEN
            LET force == <<"-f">> \in Range(args)
                opnds == Range(args) \ {<<"-f">>}
            IN  [fs |-> RemoveFiles(files, opnds), out |-> <<>>,
                 st |-> IF force \/ (opnds # {} /\ \A a \in opnds : Exists(files, a))
                        THEN 0 ELSE 1]
        ELSE IF name = <<"test">> THEN
            [fs |-> files, out |-> <<>>, st |-> TestStatus(files, args)]
        ELSE IF name = <<"[">> THEN
            IF args # <<>> /\ args[Len(args)] = <<"]">>
            THEN [fs |-> files, out |-> <<>>,
                  st |-> TestStatus(files, SubSeq(args, 1, Len(args) - 1))]
            ELSE [fs |-> files, out |-> <<>>, st |-> 2]
        ELSE [fs |-> files, out |-> <<>>, st |-> 127]

\* Words of a simple command that are not redirection targets, and the targets
RECURSIVE ArgvOf(_)
ArgvOf(c) ==
    IF c = <<>> THEN <<>>
    ELSE IF IsOp(c[1], ">") THEN ArgvOf(SubSeq(c, 3, Len(c)))
    ELSE <<c[1].v>> \o ArgvOf(Tail(c))

RECURSIVE TargetsOf(_)
TargetsOf(c) ==
    IF c = <<>> THEN <<>>
    ELSE IF IsOp(c[1], ">") THEN <<c[2].v>> \o TargetsOf(SubSeq(c, 3, Len(c)))
    ELSE TargetsOf(Tail(c))

\* Standard output redirected with > : every target is truncated, the last
\* one receives the output; /dev/null discards it.
Redirect(files, targets, data) ==
    LET real == SelectSeq(targets, LAMBDA n : n # <<"/dev/null">>)
        lastT == targets[Len(targets)]
    IN  IF lastT = <<"/dev/null">> THEN WriteAll(files, real, <<>>)
        ELSE WriteFile(WriteAll(files, real, <<>>), lastT, data)

StripSudo(argv) == IF argv # <<>> /\ argv[1] = <<"sudo">> THEN Tail(argv) ELSE argv

\* A simple command: env is [fs, out, st, log], stdin the piped input; log
\* lists the names of the utilities that ran, in order
Redirected(r, targets, log) ==
    [fs  |-> IF targets = <<>> THEN r.fs ELSE Redirect(r.fs, targets, r.out),
     out |-> IF targets = <<>> THEN r.out ELSE <<>>,
     st  |-> r.st,
     log |-> log]

Simple(c, stdin, env) ==
    Bind(StripSudo(ArgvOf(c)), LAMBDA argv :
        IF argv = <<>>
        THEN Redirected([fs |-> env.fs, out |-> <<>>, st |-> 0], TargetsOf(c), env.log)
        ELSE Bind(Utility(argv, stdin, env.fs), LAMBDA r :
                 Redirected(r, TargetsOf(c), Append(env.log, argv[1]))))

\* cmd1 | cmd2 | ... : each command reads the output of the one before it;
\* the output and the status are those of the last.
RECURSIVE Pipeline(_, _, _)
Pipeline(segs, stdin, env) ==
    IF segs = <<>> THEN env
    ELSE Bind(Simple(Head(segs), stdin, env), LAMBDA e :
             IF Len(segs) = 1
             THEN [e EXCEPT !.out = env.out \o e.out]
             ELSE Pipeline(Tail(segs), e.out, [e EXCEPT !.out = env.out]))

\* A list of commands separated by ; or newline, with the compound
\* if LIST; then LIST; [else LIST;] fi
\* Where the parts of the if command starting cs begin: its then, its else
\* (that of its fi when there is none) and its fi
IfParts(cs) ==
    Bind(FirstFrom(cs, "then", 2), LAMBDA iThen :
        Bind(FirstFrom(cs, "fi", iThen + 1), LAMBDA iFi :
            Bind(FirstFrom(cs, "else", iThen + 1), LAMBDA iEl :
                [iThen |-> iThen, iFi |-> iFi,
                 iElse |-> IF iEl = 0 \/ iEl > iFi THEN iFi ELSE iEl])))

\* The body of a part: the rest of the command that starts with the
\* reserved word at cs[from], and the commands up to cs[to]
Block(cs, from, to) == <<Tail(cs[from])>> \o SubSeq(cs, from + 1, to)

RECURSIVE RunList(_, _)
RunList(cs, env) ==
    IF cs = <<>> THEN env
    ELSE IF Head(cs) = <<>> THEN RunList(Tail(cs), env)
    ELSE IF StartsWith(Head(cs), "if") THEN
        Bind(IfParts(cs), LAMBDA p :
            Bind(RunList(Block(cs, 1, p.iThen - 1), env), LAMBDA e1 :
                Bind(IF e1.st = 0 THEN RunList(Block(cs, p.iThen, p.iElse - 1), e1)
                     ELSE IF p.iElse = p.iFi THEN [e1 EXCEPT !.st = 0]
                     ELSE RunList(Block(cs, p.iElse, p.iFi - 1), [e1 EXCEPT !.st = 0]),
                     LAMBDA e2 : RunList(SubSeq(cs, p.iFi + 1, Len(cs)), e2))))
    ELSE Bind(Pipeline(SplitAt(Head(cs), "|", <<>>, <<>>), <<>>, env),
              LAMBDA e : RunList(Tail(cs), e))

\* The grammar the interpreter accepts: every > is followed by a word, no
\* side of a | is empty, every if has its then and its fi.
SimpleOk(c) ==
    /\ c # <<>>
    /\ \A i \in 1..Len(c) : IsOp(c[i], ">") => i < Len(c) /\ c[i + 1].t = "w"

CommandOk(cs, j) ==
    LET c == cs[j] IN
    /\ c # <<>> => \A seg \in Range(SplitAt(c, "|", <<>>, <<>>)) : SimpleOk(seg)
    /\ StartsWith(c, "if") =>
          /\ FirstFrom(cs, "then", j + 1) # 0
          /\ FirstFrom(cs, "fi", FirstFrom(cs, "then", j + 1) + 1) # 0
    /\ StartsWith(c, "fi") => Len(c) = 1

\* sh -c command: the files afterwards, the standard output, the exit
\* status and the utilities that ran.  A command line with a syntax error
\* runs nothing and exits with status 2.
Env0(files) == [fs |-> files, out |-> <<>>, st |-> 0, log |-> <<>>]

Shell(command, files) ==
    Bind(Tokens(command), LAMBDA toks :
        IF \E i \in 1..Len(toks) : toks[i].t = "err" THEN [Env0(files) EXCEPT !.st = 2]
        ELSE Bind(SplitAt(toks, ";", <<>>, <<>>), LAMBDA cs :
                 IF \E j \in 1..Len(cs) : ~CommandOk(cs, j)
                 THEN [Env0(files) EXCEPT !.st = 2]
                 ELSE RunList(cs, Env0(files))))

----------------------------------------------------------------------------
(* SSH sessions                                                            *)

\* Where a handler call can fail outside the remote command's own result:
\*   "session" : sshClient.NewSession() returns an error
\*   "start"   : the command cannot be started (nothing runs on the host)
\*   "wait"    : the command runs on the host but its completion never
\*               arrives (the connection dies while waiting)
Faults == {"none", "session", "start", "wait"}

\* session.Run(command) / session.Start(command) ... session.Wait():
\* err is "nil", "exit" (the command ran and exited non-zero) or
\* "transport" (it could not be started or completed).
Run(command, fault, files) ==
    IF fault = "start"
    THEN [err |-> "transport", ran |-> FALSE, st |-> 0, fs |-> files, out |-> <<>>, log |-> <<>>]
    ELSE Bind(Shell(command, files), LAMBDA r :
             [err |-> IF fault = "wait" THEN "transport"
                      ELSE IF r.st # 0 THEN "exit" ELSE "nil",
              ran |-> TRUE, st |-> r.st, fs |-> r.fs, out |-> r.out, log |-> r.log])

\* bufio.Scanner with the default line splitter, each line re-joined with
\* "\n": a trailing carriage return of a line is dropped and a last line
\* without newline still counts.
RECURSIVE ScanLines(_)
ScanLines(s) ==
    IF s = <<>> THEN <<>>
    ELSE LET j    == FirstIndex(s, NL, 1)
             line == IF j = 0 THEN s ELSE SubSeq(s, 1, j - 1)
             text == IF line # <<>> /\ line[Len(line)] = "\r"
                     THEN SubSeq(line, 1, Len(line) - 1) ELSE line
         IN  text \o <<NL>> \o (IF j = 0 THEN <<>> ELSE ScanLines(SubSeq(s, j + 1, Len(s))))

----------------------------------------------------------------------------
(* Diagnostics and responses                                               *)

Error(summary, cause) == [sev |-> "error", summary |-> summary, cause |-> cause]
Warning(summary) == [sev |-> "warning", summary |-> summary, cause |-> "nil"]
HasError(diags) == \E i \in 1..Len(diags) : diags[i].sev = "error"

\* The data model of a resource (SiteResourceModel, ConfigResourceModel,
\* ProxyResourceModel, APIResourceModel; for the SDK resource the fields of
\* its schema.ResourceData, path standing for config_path).  name is
\* config_name / proxy_name / api_name and stays null where there is none.
NullModel ==
    [server_name |-> NullStr, listen_port |-> NullInt, root |-> NullStr,
     path |-> NullStr, content |-> NullStr, id |-> NullStr, name |-> NullStr]

\* A handler's response: whether it wrote the state (resp.State.Set), the
\* data written, the diagnostics, and what happened on the host.
Failed(diag, files, r) ==
    [set |-> FALSE, removed |-> FALSE, data |-> NullModel, diags |-> <<diag>>, fs |-> files,
     issued |-> r.ran, exit |-> r.st, log |-> r.log]
NotRun == [ran |-> FALSE, st |-> 0, log |-> <<>>]
Saved(data, diags, r) ==
    [set |-> TRUE, removed |-> FALSE, data |-> data, diags |-> diags, fs |-> r.fs,
     issued |-> r.ran, exit |-> r.st, log |-> r.log]
Returned(files, r) ==
    [set |-> FALSE, removed |-> FALSE, data |-> NullModel, diags |-> <<>>, fs |-> files,
     issued |-> r.ran, exit |-> r.st, log |-> r.log]

----------------------------------------------------------------------------
(* Resource Config (Proxy and API repeat it)                               *)

\* fmt.Sprintf("echo '%s' | sudo tee %s > /dev/null", shellEscape(content), path)
WriteCommand(content, path) ==
    <<"echo", SP, SQ>> \o shellEscape(content)
        \o <<SQ, SP, "|", SP, "sudo", SP, "tee", SP>> \o path \o <<SP, ">", SP, "/dev/null">>

\* fmt.Sprintf("if [ -f %s ]; then cat %s; else echo 'NOT_FOUND'; fi", path, path)
CheckCommand(path) ==
    <<"if", SP, "[", SP, "-f", SP>> \o path
        \o <<SP, "]", ";", SP, "then", SP, "cat", SP>> \o path
        \o <<";", SP, "else", SP, "echo", SP, SQ, "NOT_FOUND", SQ, ";", SP, "fi">>

\* Sets the id and the content and saves the data as the new state
Written(data, content, r) ==
    Saved([data EXCEPT !.id = Str(ValueString(data.name)), !.content = Str(content)], <<>>, r)

\* ConfigCreate with the error of the command left out of the diagnostic:
\* "Failed to execute command" whatever the error was
ConfigCreateWithoutCause(plan, fault, files) ==
    IF fault = "session" THEN Failed(Error("SSH Session Error", "session"), files, NotRun)
    ELSE Bind(Render(ValueInt64(plan.listen_port), ValueString(plan.server_name),
                     ValueString(plan.root)), LAMBDA configContent :
         Bind(Run(WriteCommand(configContent, ValueString(plan.path)), fault, files), LAMBDA r :
             IF r.err # "nil" THEN Failed(Error("Command Execution Error", "error"), r.fs, r)
             ELSE Written(plan, configContent, r)))

ConfigCreate(plan, fault, files) ==
    IF fault = "session" THEN Failed(Error("SSH Session Error", "session"), files, NotRun)
    ELSE Bind(Render(ValueInt64(plan.listen_port), ValueString(plan.server_name),
                     ValueString(plan.root)), LAMBDA configContent :
         Bind(Run(WriteCommand(configContent, ValueString(plan.path)), fault, files), LAMBDA r :
             IF r.err # "nil" THEN Failed(Error("Command Execution Error", r.err), r.fs, r)
             ELSE Written(plan, configContent, r)))

\* The state Read saves: the content read, or null content and a warning
\* when the output is NOT_FOUND
Observed(data, result, r) ==
    IF TrimSpace(result) = <<"NOT_FOUND">>
    THEN Saved([data EXCEPT !.content = NullStr, !.id = Str(ValueString(data.name))],
               <<Warning("File Not Found")>>, r)
    ELSE Saved([data EXCEPT !.content = Str(result), !.id = Str(ValueString(data.name))],
               <<>>, r)

ConfigRead(data, fault, files) ==
    IF fault = "session" THEN Failed(Error("SSH Session Error", "session"), files, NotRun)
    ELSE Bind(Run(CheckCommand(ValueString(data.path)), fault, files), LAMBDA r :
             IF fault = "start"
             THEN Failed(Error("SSH Command Execution Error", "transport"), r.fs, r)
             ELSE IF r.err # "nil" THEN Failed(Error("SSH Command Error", r.err), r.fs, r)
             ELSE Bind(ScanLines(r.out), LAMBDA result : Observed(data, result, r)))

\* ConfigUpdate without the return that follows the error of the command:
\* the error is reported and the plan is saved all the same
ConfigUpdateWithoutReturn(plan, fault, files) ==
    IF fault = "session" THEN Failed(Error("SSH Session Error", "session"), files, NotRun)
    ELSE Bind(Render(ValueInt64(plan.listen_port), ValueString(plan.server_name),
                     ValueString(plan.root)), LAMBDA updatedConfig :
         Bind(Run(WriteCommand(updatedConfig, ValueString(plan.path)), fault, files), LAMBDA r :
             [Written(plan, updatedConfig, r) EXCEPT
                 !.diags = IF r.err # "nil"
                           THEN <<Error("Command Execution Error", r.err)>> ELSE <<>>]))

ConfigUpdate(plan, fault, files) ==
    IF fault = "session" THEN Failed(Error("SSH Session Error", "session"), files, NotRun)
    ELSE Bind(Render(ValueInt64(plan.listen_port), ValueString(plan.server_name),
                     ValueString(plan.root)), LAMBDA updatedConfig :
         Bind(Run(WriteCommand(updatedConfig, ValueString(plan.path)), fault, files), LAMBDA r :
             IF r.err # "nil" THEN Failed(Error("Command Execution Error", r.err), r.fs, r)
             ELSE Written(plan, updatedConfig, r)))

\* Reads the prior state and returns: no session, no command.
ConfigDelete(data, fault, files) == Returned(files, NotRun)

ProxyCreate(plan, fault, files) == ConfigCreate(plan, fault, files)
ProxyRead(data, fault, files) == ConfigRead(data, fault, files)
ProxyUpdate(plan, fault, files) == ConfigUpdate(plan, fault, files)
ProxyDelete(data, fault, files) == ConfigDelete(data, fault, files)

APICreate(plan, fault, files) == ConfigCreate(plan, fault, files)
APIRead(data, fault, files) == ConfigRead(data, fault, files)
APIUpdate(plan, fault, files) == ConfigUpdate(plan, fault, files)

\* fmt.Sprintf("sudo rm -f %s", path)
DeleteCommand(path) == <<"sudo", SP, "rm", SP, "-f", SP>> \o path

\* APIDelete with a second attempt after a failed NewSession: the command
\* runs on the second session and the first error is reported
APIDeleteAfterRetry(data, fault, files) ==
    Bind(Run(DeleteCommand(ValueString(data.path)),
             IF fault = "session" THEN "none" ELSE fault, files), LAMBDA r :
        IF fault = "session" THEN Failed(Error("SSH Session Error", "session"), r.fs, r)
        ELSE IF r.err # "nil" THEN Failed(Error("Command Execution Error", r.err), r.fs, r)
        ELSE Returned(r.fs, r))

APIDelete(data, fault, files) ==
    IF fault = "session" THEN Failed(Error("SSH Session Error", "session"), files, NotRun)
    ELSE Bind(Run(DeleteCommand(ValueString(data.path)), fault, files), LAMBDA r :
             IF r.err # "nil" THEN Failed(Error("Command Execution Error", r.err), r.fs, r)
             ELSE Returned(r.fs, r))

----------------------------------------------------------------------------
(* Resource Site                                                           *)

\* fmt.Sprintf("echo '%s' > %s", content, path)
SiteWriteCommand(content, path) == <<"echo", SP, SQ>> \o content \o <<SQ, SP, ">", SP>> \o path

\* fmt.Sprintf("test -f %s", path)
SiteTestCommand(path) == <<"test", SP, "-f", SP>> \o path

SiteCreate(plan, fault, files) ==
    IF fault = "session" THEN Failed(Error("SSH Session Error", "session"), files, NotRun)
    ELSE Bind(Run(SiteWriteCommand(ValueString(plan.content), ValueString(plan.path)),
                  fault, files), LAMBDA r :
             IF r.err # "nil" THEN Failed(Error("Command Execution Error", r.err), r.fs, r)
             ELSE Saved([plan EXCEPT !.id = Str(ValueString(plan.server_name) \o
                                      <<":", FormatInt(ValueInt64(plan.listen_port))>>)],
                        <<>>, r))

SiteRead(data, fault, files) ==
    IF fault = "session" THEN Failed(Error("SSH Session Error", "session"), files, NotRun)
    ELSE Bind(Run(SiteTestCommand(ValueString(data.path)), fault, files), LAMBDA r :
             IF r.err # "nil" THEN Failed(Error("Resource Not Found", r.err), r.fs, r)
             ELSE Saved(data, <<>>, r))

\* Saves the plan as the new state: no session, no command.
SiteUpdate(plan, fault, files) == Saved(plan, <<>>, NotRun @@ [fs |-> files])

SiteDelete(data, fault, files) == Returned(files, NotRun)

----------------------------------------------------------------------------
(* SDK resource nginx_config                                               *)

\* uploadConfig, configExists and deleteConfigFile only print and return
\* success: they reach no host.
uploadConfig(path, content) == "nil"
configExists(path) == [exists |-> TRUE, err |-> "nil"]
deleteConfigFile(path) == "nil"

\* fmt.Sprintf("/etc/nginx/sites-available/%s.conf", serverName)
ConfigPath(serverName) == <<"/etc/nginx/sites-available/">> \o serverName \o <<".conf">>

createConfig(d, fault, files) ==
    LET serverName == ValueString(d.server_name)
        configPath == ConfigPath(serverName)
        err == uploadConfig(configPath, <<>>)
    IN  IF err # "nil"
        THEN Failed(Error("failed to upload NGINX config", err), files, NotRun)
        ELSE Saved([d EXCEPT !.id = Str(serverName), !.path = Str(configPath)], <<>>,
                   NotRun @@ [fs |-> files])

readConfig(d, fault, files) ==
    LET res == configExists(ValueString(d.path))
    IN  IF res.err # "nil"
        THEN Failed(Error("failed to check if NGINX config exists", res.err), files, NotRun)
        ELSE IF ~res.exists
        THEN [Returned(files, NotRun) EXCEPT !.removed = TRUE]
        ELSE Returned(files, NotRun)

\* d carries the planned values; prior is the state before the update
updateConfig(d, prior, fault, files) ==
    IF \/ d.server_name # prior.server_name
       \/ d.listen_port # prior.listen_port
       \/ d.root # prior.root
    THEN createConfig(d, fault, files)
    ELSE Saved(d, <<>>, NotRun @@ [fs |-> files])

deleteConfig(d, fault, files) ==
    LET err == deleteConfigFile(ValueString(d.path))
    IN  IF err # "nil"
        THEN Failed(Error("failed to delete NGINX config", err), files, NotRun)
        ELSE [Returned(files, NotRun) EXCEPT !.removed = TRUE]

----------------------------------------------------------------------------
(* Provider                                                                *)

\* ssh.InsecureIgnoreHostKey(): a callback that returns nil for every key
InsecureIgnoreHostKey(hostKey) == "nil"

\* ssh.Dial("tcp", host+":22", sshConfig): the TCP connection, then the
\* handshake, which asks the host key callback about the key the host shows
Dial(hostKeyCallback, fault) ==
    IF fault = "dial" THEN "dial"
    ELSE IF hostKeyCallback # "nil" THEN "hostkey"
    ELSE "nil"

\* host := os.Getenv("HOST"); if !config.Host.IsNull() { host = ... }
Resolve(attribute, variable) == IF attribute.null THEN variable ELSE ValueString(attribute)

\* The attribute errors of the three checks, in the order of the code
MissingErrors(host, username, password) ==
    (IF host = <<>> THEN <<Error("Missing Host", "config")>> ELSE <<>>)
    \o (IF username = <<>> THEN <<Error("Missing Username", "config")>> ELSE <<>>)
    \o (IF password = <<>> THEN <<Error("Missing Password", "config")>> ELSE <<>>)

\* NginxProviderConfigure without the return that follows the three
\* checks: the connection is attempted with whatever was resolved
NginxProviderConfigureWithoutReturn(config, env, hostKey, fault) ==
    Bind(MissingErrors(Resolve(config.host, env.HOST),
                       Resolve(config.username, env.USERNAME),
                       Resolve(config.password, env.PASSWORD)), LAMBDA missing :
        Bind(Dial(InsecureIgnoreHostKey(hostKey), fault), LAMBDA err :
            IF err # "nil"
            THEN [client |-> FALSE, dials |-> 1,
                  diags |-> missing \o <<Error("Unable to SSH to host", err)>>]
            ELSE [client |-> TRUE, diags |-> missing, dials |-> 1]))

\* dials counts the calls of ssh.Dial
NginxProviderConfigure(config, env, hostKey, fault) ==
    Bind(MissingErrors(Resolve(config.host, env.HOST),
                       Resolve(config.username, env.USERNAME),
                       Resolve(config.password, env.PASSWORD)), LAMBDA missing :
        IF missing # <<>> THEN [client |-> FALSE, diags |-> missing, dials |-> 0]
        ELSE Bind(Dial(InsecureIgnoreHostKey(hostKey), fault), LAMBDA err :
                 IF err # "nil"
                 THEN [client |-> FALSE, dials |-> 1,
                       diags |-> <<Error("Unable to SSH to host", err)>>]
                 ELSE [client |-> TRUE, diags |-> <<>>, dials |-> 1]))

\* ConfigResource.Configure without the assignment r.client = client
ResourceConfigureWithoutStore(r, providerData) ==
    IF providerData = "nil" THEN [r EXCEPT !.diags = <<>>]
    ELSE IF providerData # "ssh"
    THEN [r EXCEPT !.diags = <<Error("Unexpected Resource Configure Type", "type")>>]
    ELSE [r EXCEPT !.diags = <<>>]

\* ConfigResource.Configure (Proxy, API and Site repeat it): providerData is
\* "nil", "ssh" for an *ssh.Client, or another type
ResourceConfigure(r, providerData) ==
    IF providerData = "nil" THEN [r EXCEPT !.diags = <<>>]
    ELSE IF providerData # "ssh"
    THEN [r EXCEPT !.diags = <<Error("Unexpected Resource Configure Type", "type")>>]
    ELSE [r EXCEPT !.client = "ssh", !.diags = <<>>]

\* sshClient := r.client.(*ssh.Client) followed by sshClient.NewSession():
\* the assertion panics on the nil interface
UseClient(r) == [r EXCEPT !.used = IF r.client = "ssh" THEN "session" ELSE "panic"]

----------------------------------------------------------------------------
(* Import                                                                  *)

\* strings.Split(s, sep) for a separator of one lexeme: the parts between
\* the separators, in order
RECURSIVE Split(_, _)
Split(s, sep) ==
    IF \A i \in 1..Len(s) : s[i] # sep THEN <<s>>
    ELSE Bind(FirstIndex(s, sep, 1), LAMBDA i :
             <<SubSeq(s, 1, i - 1)>> \o Split(SubSeq(s, i + 1, Len(s)), sep))

\* The response of an import that stores data; no session, no command
Imported(data, files) ==
    [set |-> TRUE, removed |-> FALSE, data |-> data, diags |-> <<>>, fs |-> files,
     issued |-> FALSE, exit |-> 0, log |-> <<>>]

\* resource.ImportStatePassthroughID(ctx, path.Root("id"), req, resp): the
\* whole identifier becomes the id, no other attribute is set
ImportStatePassthroughID(id, files) ==
    Imported([NullModel EXCEPT !.id = Str(id)], files)

ConfigImportState(id, files) == ImportStatePassthroughID(id, files)
ProxyImportState(id, files) == ImportStatePassthroughID(id, files)
SiteImportState(id, files) == ImportStatePassthroughID(id, files)

\* schema.ImportStatePassthroughContext: d.SetId of the identifier
ImportStatePassthroughContext(id, files) ==
    Imported([NullModel EXCEPT !.id = Str(id)], files)

APIImportState(id, files) ==
    Bind(Split(id, ":"), LAMBDA idParts :
        IF Len(idParts) # 2
        THEN Failed(Error("Invalid Import ID", "format"), files, NotRun)
        ELSE Imported([NullModel EXCEPT !.name = Str(idParts[1]),
                                        !.path = Str(idParts[2]),
                                        !.id = Str(idParts[1])], files))

----------------------------------------------------------------------------
(* Inputs                                                                  *)

\* Number of distinct listen ports the plans choose from
MaxPorts == 2

Kinds == {"Site", "Config", "Proxy", "API", "Sdk"}

FileA == <<"/etc/site/a.conf">>
FileB == <<"/etc/site/b.conf">>

\* A server name and a content that try to leave the quotes of the write
\* command:  x'; rm -f /etc/site/b.conf; echo '
Breakout == <<"x", SQ, ";", SP, "rm", SP, "-f", SP>> \o FileB \o <<";", SP, "echo", SP, SQ>>

Names == {<<"blog">>, <<"shop">>}
Ports == {8080 + i : i \in 0..(MaxPorts - 1)}
Roots == {<<"/var/www/blog">>}

\* Destination paths that leave the place the commands give them: one with
\* a semicolon and a second command, one with a quote, one with a blank and
\* a bar
Injection == FileA \o <<";", SP, "rm", SP, "-f", SP>> \o FileB

HostilePaths(op) ==
    IF op = "Create" THEN {Injection, FileA \o <<SQ>>, FileA \o <<SP, "|">>}
    ELSE {Injection}

\* What a plan can ask for: the plain values with every port, each hostile
\* path (every one of them at Create, the first at Update), the hostile
\* text (server name or content) with the plain path, and at Update the
\* plain values under the other name; at Create also the plain values with
\* the port left unset (written 0 here)
Requests(op) ==
    {[port |-> pt, path |-> FileA, text |-> <<>>, name |-> <<"blog">>] : pt \in Ports}
    \cup {[port |-> 8080, path |-> pa, text |-> <<>>, name |-> <<"blog">>] :
              pa \in HostilePaths(op)}
    \cup {[port |-> 8080, path |-> FileA, text |-> Breakout, name |-> <<"blog">>]}
    \cup {[port |-> 8080, path |-> FileA, text |-> <<>>, name |-> n] :
              n \in IF op = "Update" THEN Names ELSE {}}
    \cup (IF op = "Create"
          THEN {[port |-> 0, path |-> FileA, text |-> <<>>, name |-> <<"blog">>]}
          ELSE {})

\* The listen_port of a request: null when the configuration leaves it out
PortOf(q) == IF q.port = 0 THEN NullInt ELSE Int64(q.port)

\* The plan (or configuration) values a Create or Update can be called with.
\* id is computed: unknown at Create, carried over from the state at Update.
Plans(k, op, id) ==
    IF k = "Site" THEN
        {[server_name |-> Str(<<"blog.example.com">>), listen_port |-> PortOf(q),
          root |-> Str(rt), path |-> Str(q.path),
          content |-> Str(IF q.text = <<>> THEN <<"hello">> ELSE q.text),
          id |-> id, name |-> NullStr] : q \in Requests(op), rt \in Roots}
    ELSE IF k = "Sdk" THEN
        {[server_name |-> Str(<<"blog.example.com">>), listen_port |-> Int64(pt),
          root |-> Str(rt), path |-> NullStr, content |-> NullStr, id |-> id, name |-> NullStr] :
            pt \in Ports, rt \in Roots}
    ELSE
        {[server_name |-> Str(IF q.text = <<>> THEN <<"blog.example.com">> ELSE q.text),
          listen_port |-> PortOf(q), root |-> Str(rt), path |-> Str(q.path),
          content |-> NullStr, id |-> id, name |-> Str(q.name)] :
            q \in Requests(op), rt \in Roots}

\* What other hands on the host put into the file of a tracked object: the
\* very text the probe prints for a missing file, and nothing at all
HostTexts == {<<"NOT_FOUND", NL>>, <<>>}

\* The provider configurations: the host given, and the host left out with
\* no HOST in the environment.  None has an attribute about host keys: the
\* schema knows host, username and password only.
ProviderConfigs ==
    {[host |-> h, username |-> Str(<<"deploy">>), password |-> Str(<<"secret">>)] :
        h \in {Str(<<"web1">>), NullStr}}

\* The environment of the provider process without HOST, USERNAME, PASSWORD
NoEnv == [HOST |-> <<>>, USERNAME |-> <<>>, PASSWORD |-> <<>>]

\* For the configuration alone: every attribute null, empty or given, and
\* every variable of the environment unset or set
AttributeValues(v) == {NullStr, Str(<<>>), Str(v)}
AllProviderConfigs ==
    {[host |-> h, username |-> u, password |-> pw] :
        h \in AttributeValues(<<"web1">>), u \in AttributeValues(<<"deploy">>),
        pw \in AttributeValues(<<"secret">>)}
Environments ==
    {[HOST |-> h, USERNAME |-> u, PASSWORD |-> pw] :
        h \in {<<>>, <<"web2">>}, u \in {<<>>, <<"root">>}, pw \in {<<>>, <<"envsecret">>}}

\* The resource of a request before its Configure: r.client is the nil
\* interface
NoHandle == [op |-> "none", client |-> "unset", diags |-> <<>>, used |-> "none"]

\* Two objects with names and destination paths of their own
Artifacts == {"a", "b"}
OwnPath(x) == IF x = "a" THEN FileA ELSE FileB

\* The plans for one of the two objects: for "a" the plain values, the
\* hostile text and the path with a second command; for "b" the plain values
PairPlans(k, op, x, id) ==
    IF x = "a"
    THEN {p \in Plans(k, op, id) :
             /\ ValueInt64(p.listen_port) = 8080
             /\ ValueString(p.path) \in {FileA, Injection}
             /\ ValueString(p.name) \in {<<>>, <<"blog">>}}
    ELSE {[p EXCEPT !.path = Str(FileB), !.server_name = Str(<<"shop.example.com">>),
                    !.name = IF p.name.null THEN NullStr ELSE Str(<<"shop">>)] :
             p \in {q \in Plans(k, op, id) :
                       /\ ValueInt64(q.listen_port) = 8080
                       /\ ValueString(q.path) = FileA
                       /\ ValueString(q.name) \in {<<>>, <<"blog">>}
                       /\ ValueString(q.server_name) = <<"blog.example.com">>
                       /\ ValueString(q.content) \in {<<>>, <<"hello">>}}}

\* The provider before Configure
NotConfigured ==
    [configured |-> FALSE, config |-> <<>>, env |-> <<>>, fault |-> "none",
     client |-> FALSE, diags |-> <<>>, dials |-> 0]

\* Whether the key the host shows is one the caller has verified
HostKeys == {"verified", "unverified"}

\* The identifiers an import can be called with: identity and path, the
\* identity alone, and three components.  The colon is a lexeme of its own.
ImportIDs ==
    {<<"blog", ":">> \o FileA, <<"blog">>, <<"blog", ":">> \o FileA \o <<":", "x">>}

\* Server names and roots for the rendering alone: plain ones, and ones that
\* hold the text the block puts between the server name and the root
\* (semicolon, newlines, tabs, a blank)
BetweenNameAndRoot == <<";", NL, NL, TAB, TAB, "root", SP>>
RenderTexts ==
    {<<"a">>, <<"b">>,
     <<"a">> \o BetweenNameAndRoot \o <<"b">>,
     <<"b">> \o BetweenNameAndRoot \o <<"b">>}

RenderTuples ==
    {[listenPort |-> pt, serverName |-> sn, root |-> rt] :
        pt \in Ports, sn \in RenderTexts, rt \in RenderTexts}

\* No rendering asked for
NoRendering == [p |-> <<>>, q |-> <<>>, done |-> FALSE, outP |-> <<>>, outQ |-> <<>>]

\* Number of handler calls that run side by side on the one connection
MaxCalls == 2

\* Number of sessions the connection opens in one run
MaxSessions == 3

Callers == 1..MaxCalls

\* A caller with no call running
Idle == [pc |-> "idle", session |-> 0]

\* The failure points a handler passes through
FaultPoints(k, op) ==
    IF k = "Sdk" THEN {"none"}
    ELSE IF op = "Delete" /\ k # "API" THEN {"none"}
    ELSE IF op = "Update" /\ k = "Site" THEN {"none"}
    ELSE Faults

----------------------------------------------------------------------------
(* The provider server: one tracked object, its handlers called one at a   *)
(* time                                                                    *)

ImportHandler(k, id, files) ==
    CASE k = "Site" -> SiteImportState(id, files)
      [] k = "Config" -> ConfigImportState(id, files)
      [] k = "Proxy" -> ProxyImportState(id, files)
      [] k = "API" -> APIImportState(id, files)
      [] k = "Sdk" -> ImportStatePassthroughContext(id, files)

CreateHandler(k, plan, fault, files) ==
    CASE k = "Site" -> SiteCreate(plan, fault, files)
      [] k = "Config" -> ConfigCreate(plan, fault, files)
      [] k = "Proxy" -> ProxyCreate(plan, fault, files)
      [] k = "API" -> APICreate(plan, fault, files)
      [] k = "Sdk" -> createConfig(plan, fault, files)

ReadHandler(k, data, fault, files) ==
    CASE k = "Site" -> SiteRead(data, fault, files)
      [] k = "Config" -> ConfigRead(data, fault, files)
      [] k = "Proxy" -> ProxyRead(data, fault, files)
      [] k = "API" -> APIRead(data, fault, files)
      [] k = "Sdk" -> readConfig(data, fault, files)

\* The SDK resource's planned data keep the computed config_path of the state
UpdateHandler(k, plan, prior, fault, files) ==
    CASE k = "Site" -> SiteUpdate(plan, fault, files)
      [] k = "Config" -> ConfigUpdate(plan, fault, files)
      [] k = "Proxy" -> ProxyUpdate(plan, fault, files)
      [] k = "API" -> APIUpdate(plan, fault, files)
      [] k = "Sdk" -> updateConfig([plan EXCEPT !.path = prior.path], prior, fault, files)

DeleteHandler(k, data, fault, files) ==
    CASE k = "Site" -> SiteDelete(data, fault, files)
      [] k = "Config" -> ConfigDelete(data, fault, files)
      [] k = "Proxy" -> ProxyDelete(data, fault, files)
      [] k = "API" -> APIDelete(data, fault, files)
      [] k = "Sdk" -> deleteConfig(data, fault, files)

Untracked == [tracked |-> FALSE, data |-> NullModel]
Tracked(data) == [tracked |-> TRUE, data |-> data]

\* No object served yet.  state is the tracked state of the object, solo the
\* files of a host that serves this object only, soloState its state there.
NoPair ==
    [actor |-> "none", failed |-> FALSE,
     objs |-> [x \in Artifacts |->
                 [state |-> Untracked, solo |-> <<>>, soloState |-> Untracked]]]

\* What the call leaves in `last`: the path of the request, whether a file of
\* that name existed before the call, and the response.
Outcome(op, req, fault, files, resp) ==
    [op |-> op, fault |-> fault, path |-> ValueString(req.path),
     present |-> Exists(files, ValueString(req.path)),
     issued |-> resp.issued, exit |-> resp.exit, log |-> resp.log, diags |-> resp.diags,
     ident |-> <<>>, hostKey |-> ""]

\* Create starts from an empty state: the object is tracked afterwards
\* exactly if the handler wrote the state.
Create ==
    /\ client /\ blocked = "none"
    /\ ~state.tracked
    /\ \E plan \in Plans(kind, "Create", NullStr), fault \in FaultPoints(kind, "Create") :
          \E resp \in {CreateHandler(kind, plan, fault, fs)} :
              /\ state' = IF resp.set THEN Tracked(resp.data) ELSE Untracked
              /\ fs' = resp.fs
              /\ last' = Outcome("Create", plan, fault, fs, resp)
    /\ UNCHANGED <<kind, client, blocked, calls, sessions, rendering, provider, handle, pair>>

\* Read starts from the prior state and keeps it unless the handler writes
\* or removes it.
Read ==
    /\ client /\ blocked = "none"
    /\ state.tracked
    /\ \E fault \in FaultPoints(kind, "Read") :
          \E resp \in {ReadHandler(kind, state.data, fault, fs)} :
              /\ state' = IF resp.removed THEN Untracked
                          ELSE IF resp.set THEN Tracked(resp.data) ELSE state
              /\ fs' = resp.fs
              /\ last' = Outcome("Read", state.data, fault, fs, resp)
    /\ UNCHANGED <<kind, client, blocked, calls, sessions, rendering, provider, handle, pair>>

\* Update starts from the prior state and keeps it unless the handler
\* writes the state.
Update ==
    /\ client /\ blocked = "none"
    /\ state.tracked
    /\ \E plan \in Plans(kind, "Update", state.data.id), fault \in FaultPoints(kind, "Update") :
          \E resp \in {UpdateHandler(kind, plan, state.data, fault, fs)} :
              /\ state' = IF resp.set THEN Tracked(resp.data) ELSE state
              /\ fs' = resp.fs
              /\ last' = Outcome("Update", plan, fault, fs, resp)
    /\ UNCHANGED <<kind, client, blocked, calls, sessions, rendering, provider, handle, pair>>

\* Delete: the object leaves the state whenever the handler returns
\* without an error diagnostic.
Delete ==
    /\ client /\ blocked = "none"
    /\ state.tracked
    /\ \E fault \in FaultPoints(kind, "Delete") :
          \E resp \in {DeleteHandler(kind, state.data, fault, fs)} :
              /\ state' = IF HasError(resp.diags) THEN state ELSE Untracked
              /\ fs' = resp.fs
              /\ last' = Outcome("Delete", state.data, fault, fs, resp)
    /\ UNCHANGED <<kind, client, blocked, calls, sessions, rendering, provider, handle, pair>>

\* Import starts from an empty state: the object is tracked afterwards
\* exactly if the handler returned no error.
Import ==
    /\ client /\ blocked = "none"
    /\ ~state.tracked
    /\ \E id \in ImportIDs :
          \E resp \in {ImportHandler(kind, id, fs)} :
              /\ state' = IF resp.set /\ ~HasError(resp.diags) THEN Tracked(resp.data)
                          ELSE Untracked
              /\ fs' = resp.fs
              /\ last' = [Outcome("Import", resp.data, "none", fs, resp) EXCEPT !.ident = id]
    /\ UNCHANGED <<kind, client, blocked, calls, sessions, rendering, provider, handle, pair>>

NoCall ==
    [op |-> "none", fault |-> "none", path |-> <<>>, present |-> FALSE,
     issued |-> FALSE, exit |-> 0, log |-> <<>>, diags |-> <<>>, ident |-> <<>>,
     hostKey |-> ""]

\* The file of the tracked object disappears from the host by other hands
\* (the case Read answers with NOT_FOUND).
HostRemovesFile ==
    /\ state.tracked
    /\ Exists(fs, ValueString(state.data.path))
    /\ fs' = RemoveFiles(fs, {ValueString(state.data.path)})
    /\ last' = NoCall
    /\ UNCHANGED <<kind, state, client, blocked, calls, sessions, rendering, provider, handle, pair>>

\* NginxProvider.Configure called by the framework when the provider starts:
\* the resources receive the client exactly if it returned no error.
Configure ==
    /\ ~client
    /\ \E config \in ProviderConfigs, hostKey \in HostKeys, fault \in {"none", "dial"} :
          \E resp \in {NginxProviderConfigure(config, NoEnv, hostKey, fault)} :
              /\ client' = resp.client
              /\ last' = [NoCall EXCEPT !.op = "Configure", !.fault = fault,
                                        !.diags = resp.diags, !.hostKey = hostKey]
    /\ UNCHANGED <<kind, state, fs, blocked, calls, sessions, rendering, provider, handle, pair>>

\* The operations that can be called on the object in the given state
Callable(st) == IF st.tracked THEN {"Read", "Update", "Delete"} ELSE {"Create"}

\* A handler has opened its session and started its command, and the
\* command never terminates on the host: session.Run (session.Wait in Read)
\* does not return, and the handler passes its context to neither.
CommandNeverTerminates ==
    /\ client /\ blocked = "none"
    /\ \E op \in Callable(state) :
          /\ "wait" \in FaultPoints(kind, op)
          /\ blocked' = op
    /\ last' = NoCall
    /\ UNCHANGED <<kind, state, fs, client, calls, sessions, rendering, provider, handle, pair>>

\* The host holds no file yet; nothing is tracked; the provider is not
\* configured.
Init ==
    /\ kind \in Kinds
    /\ state = Untracked
    /\ fs = [n \in {} |-> <<>>]
    /\ last = NoCall
    /\ client = FALSE
    /\ blocked = "none"
    /\ calls = [c \in Callers |-> Idle]
    /\ sessions = <<>>
    /\ pair = NoPair
    /\ handle = NoHandle
    /\ provider = NotConfigured
    /\ rendering = NoRendering

Next ==
    \/ Configure \/ Create \/ Import \/ Read \/ Update \/ Delete
    \/ HostRemovesFile \/ CommandNeverTerminates

Spec == Init /\ [][Next]_vars

\* The framework calls Configure when the provider starts.  The calls of the
\* resource handlers come as Terraform's plan asks for them and are under no
\* fairness; a handler that waits for its command has no step of its own.
LiveSpec == Spec /\ WF_vars(Configure)

----------------------------------------------------------------------------
(* Handlers running side by side.  Terraform calls the handlers of         *)
(* distinct objects concurrently; all of them use the one client the       *)
(* provider handed out.  A handler is followed statement by statement:     *)
(* NewSession, the start of the command, its end, the deferred Close.      *)

\* A handler that keeps one session for all its calls
SharedSession(sess) == 1

\* sshClient.NewSession(): a session the connection did not have before
NewSession(sess) == Len(sess) + 1

\* The sessions after a call obtained the session id
Obtained(sess, id) ==
    IF id > Len(sess) THEN Append(sess, [holders |-> 1, started |-> 0, closed |-> FALSE])
    ELSE [sess EXCEPT ![id].holders = @ + 1]

\* Whether the handler of the kind and operation opens a session
UsesSession(k, op) == "session" \in FaultPoints(k, op)

\* Terraform calls a handler; one that runs no command has only to return
Call(c) ==
    /\ calls[c].pc = "idle"
    /\ \E k \in Kinds, op \in {"Create", "Read", "Update", "Delete"} :
          calls' = [calls EXCEPT ![c].pc = IF UsesSession(k, op) THEN "called" ELSE "done"]
    /\ UNCHANGED <<kind, state, fs, last, client, blocked, sessions, rendering, provider, handle, pair>>

\* session, err := sshClient.NewSession(), followed by return on an error
\* and by defer session.Close() otherwise
OpenSession(c) ==
    /\ calls[c].pc = "called"
    /\ \/ /\ calls' = [calls EXCEPT ![c].pc = "done"]
          /\ UNCHANGED sessions
       \/ /\ Len(sessions) < MaxSessions
          /\ \E id \in {NewSession(sessions)} :
                /\ sessions' = Obtained(sessions, id)
                /\ calls' = [calls EXCEPT ![c] = [pc |-> "opened", session |-> id]]
    /\ UNCHANGED <<kind, state, fs, last, client, blocked, rendering, provider, handle, pair>>

\* The start of the command: the first half of session.Run, session.Start
\* in Read.  When it fails the handler adds its error and returns.
StartCommand(c) ==
    /\ calls[c].pc = "opened"
    /\ \/ /\ sessions' = [sessions EXCEPT ![calls[c].session].started = @ + 1]
          /\ calls' = [calls EXCEPT ![c].pc = "started"]
       \/ /\ calls' = [calls EXCEPT ![c].pc = "done"]
          /\ UNCHANGED sessions
    /\ UNCHANGED <<kind, state, fs, last, client, blocked, rendering, provider, handle, pair>>

\* The end of the command: the second half of session.Run, session.Wait
\* in Read
WaitCommand(c) ==
    /\ calls[c].pc = "started"
    /\ calls' = [calls EXCEPT ![c].pc = "done"]
    /\ UNCHANGED <<kind, state, fs, last, client, blocked, sessions, rendering, provider, handle, pair>>

\* A handler that returns and leaves its session open
ReturnWithoutClose(c) ==
    /\ calls[c].pc = "done"
    /\ calls' = [calls EXCEPT ![c] = Idle]
    /\ UNCHANGED <<kind, state, fs, last, client, blocked, sessions, rendering, provider, handle, pair>>

\* The handler returns; the deferred session.Close() runs if a session was
\* opened
Return(c) ==
    /\ calls[c].pc = "done"
    /\ sessions' = IF calls[c].session = 0 THEN sessions
                   ELSE [sessions EXCEPT ![calls[c].session].closed = TRUE]
    /\ calls' = [calls EXCEPT ![c] = Idle]
    /\ UNCHANGED <<kind, state, fs, last, client, blocked, rendering, provider, handle, pair>>

\* The provider is configured and the client handed out
ConcInit ==
    /\ kind = "Config"
    /\ state = Untracked
    /\ fs = [n \in {} |-> <<>>]
    /\ last = NoCall
    /\ client = TRUE
    /\ blocked = "none"
    /\ calls = [c \in Callers |-> Idle]
    /\ sessions = <<>>
    /\ pair = NoPair
    /\ handle = NoHandle
    /\ provider = NotConfigured
    /\ rendering = NoRendering

ConcNext ==
    \E c \in Callers :
        Call(c) \/ OpenSession(c) \/ StartCommand(c) \/ WaitCommand(c) \/ Return(c)

ConcSpec == ConcInit /\ [][ConcNext]_vars

----------------------------------------------------------------------------
(* The rendering alone: two parameter tuples, each rendered as Create and  *)
(* Update render it                                                        *)

RenderInit ==
    /\ kind = "Config"
    /\ state = Untracked
    /\ fs = [n \in {} |-> <<>>]
    /\ last = NoCall
    /\ client = TRUE
    /\ blocked = "none"
    /\ calls = [c \in Callers |-> Idle]
    /\ sessions = <<>>
    /\ pair = NoPair
    /\ handle = NoHandle
    /\ provider = NotConfigured
    /\ \E p \in RenderTuples, q \in RenderTuples :
          rendering = [NoRendering EXCEPT !.p = p, !.q = q]

RenderPair ==
    /\ ~rendering.done
    /\ rendering' =
          [rendering EXCEPT
              !.done = TRUE,
              !.outP = Render(rendering.p.listenPort, rendering.p.serverName, rendering.p.root),
              !.outQ = Render(rendering.q.listenPort, rendering.q.serverName, rendering.q.root)]
    /\ UNCHANGED <<kind, state, fs, last, client, blocked, calls, sessions, provider, handle, pair>>

RenderSpec == RenderInit /\ [][RenderPair]_vars

----------------------------------------------------------------------------
(* The configuration of the provider alone, over every combination of      *)
(* attributes and environment                                              *)

ProviderInit ==
    /\ kind = "Config"
    /\ state = Untracked
    /\ fs = [n \in {} |-> <<>>]
    /\ last = NoCall
    /\ client = FALSE
    /\ blocked = "none"
    /\ calls = [c \in Callers |-> Idle]
    /\ sessions = <<>>
    /\ pair = NoPair
    /\ handle = NoHandle
    /\ rendering = NoRendering
    /\ provider = NotConfigured

ConfigureProvider ==
    /\ ~provider.configured
    /\ \E config \in AllProviderConfigs, env \in Environments, hostKey \in HostKeys,
          fault \in {"none", "dial"} :
          \E resp \in {NginxProviderConfigure(config, env, hostKey, fault)} :
              /\ provider' = [configured |-> TRUE, config |-> config, env |-> env,
                              fault |-> fault, client |-> resp.client,
                              diags |-> resp.diags, dials |-> resp.dials]
              /\ client' = resp.client
    /\ UNCHANGED <<kind, state, fs, last, blocked, calls, sessions, rendering, handle, pair>>

ProviderSpec == ProviderInit /\ [][ConfigureProvider]_vars

----------------------------------------------------------------------------
(* The probe: objects are created and read while other hands on the host   *)
(* write and remove their files                                            *)

HostWritesFile ==
    /\ state.tracked
    /\ \E text \in HostTexts :
          /\ fs' = WriteFile(fs, ValueString(state.data.path), text)
          /\ fs' # fs
    /\ last' = NoCall
    /\ UNCHANGED <<kind, state, client, blocked, calls, sessions, rendering, provider, handle, pair>>

ProbeNext == Configure \/ Create \/ Read \/ HostWritesFile \/ HostRemovesFile

ProbeSpec == Init /\ [][ProbeNext]_vars

----------------------------------------------------------------------------
(* The client handle.  The framework makes a new resource for every        *)
(* request and calls its Configure with the data the provider handed out   *)
(* (nil before the provider is configured, as when a configuration is      *)
(* validated); it calls a handler only after the provider was configured   *)
(* without error and the Configure of the resource returned no error.      *)

\* resp.ResourceData of the provider, as the framework keeps it
ProviderData == IF provider.client THEN "ssh" ELSE "nil"

\* The configuration of the resource is validated: Configure is called,
\* no handler is
ValidateResource ==
    /\ \E r \in {ResourceConfigure(NoHandle, ProviderData)} :
          handle' = [r EXCEPT !.op = "Validate"]
    /\ handle' # handle
    /\ UNCHANGED <<kind, state, fs, last, client, blocked, calls, sessions, rendering, provider, pair>>

\* A Create, Read, Update or Delete request: Configure, then the handler up
\* to its session
CallHandler ==
    /\ provider.configured /\ ~HasError(provider.diags)
    /\ \E op \in {"Create", "Read", "Update", "Delete"} :
          \E r \in {ResourceConfigure(NoHandle, ProviderData)} :
              handle' = IF HasError(r.diags) THEN [r EXCEPT !.op = op]
                        ELSE [UseClient(r) EXCEPT !.op = op]
    /\ handle' # handle
    /\ UNCHANGED <<kind, state, fs, last, client, blocked, calls, sessions, rendering, provider, pair>>

HandleSpec == ProviderInit /\ [][ConfigureProvider \/ ValidateResource \/ CallHandler]_vars

----------------------------------------------------------------------------
(* Two objects.  Terraform serves objects that do not depend on each other *)
(* side by side; the command of a handler is one step on the host.  Each   *)
(* call is made a second time on a host that knows this object only.       *)

\* The state after a call, as the framework keeps it
StateAfter(op, st, resp) ==
    IF op = "Create" THEN (IF resp.set THEN Tracked(resp.data) ELSE Untracked)
    ELSE IF op = "Delete" THEN (IF HasError(resp.diags) THEN st ELSE Untracked)
    ELSE IF resp.removed THEN Untracked
    ELSE IF resp.set THEN Tracked(resp.data) ELSE st

\* The handler of the operation, called with the plan (Create, Update) or
\* with the state (Read, Delete)
Handler(k, op, plan, st, fault, files) ==
    IF op = "Create" THEN CreateHandler(k, plan, fault, files)
    ELSE IF op = "Update" THEN UpdateHandler(k, plan, st.data, fault, files)
    ELSE IF op = "Read" THEN ReadHandler(k, st.data, fault, files)
    ELSE DeleteHandler(k, st.data, fault, files)

Operate(x) ==
    \E op \in Callable(pair.objs[x].state) :
        \E plan \in IF op \in {"Create", "Update"}
                    THEN PairPlans(kind, op, x, pair.objs[x].state.data.id)
                    ELSE {NullModel},
           fault \in FaultPoints(kind, op) :
            \E resp \in {Handler(kind, op, plan, pair.objs[x].state, fault, fs)},
               alone \in {Handler(kind, op, plan, pair.objs[x].soloState, fault,
                                  pair.objs[x].solo)} :
                /\ fs' = resp.fs
                /\ pair' = [actor |-> x, failed |-> HasError(resp.diags),
                            objs |-> [pair.objs EXCEPT ![x] =
                               [state |-> StateAfter(op, pair.objs[x].state, resp),
                                solo |-> alone.fs,
                                soloState |-> StateAfter(op, pair.objs[x].soloState, alone)]]]
                /\ UNCHANGED <<kind, state, last, client, blocked, calls, sessions, rendering, provider, handle>>

PairInit ==
    /\ kind \in Kinds \ {"Sdk"}
    /\ state = Untracked
    /\ fs = [n \in {} |-> <<>>]
    /\ last = NoCall
    /\ client = TRUE
    /\ blocked = "none"
    /\ calls = [c \in Callers |-> Idle]
    /\ sessions = <<>>
    /\ rendering = NoRendering
    /\ provider = NotConfigured
    /\ handle = NoHandle
    /\ pair = NoPair

PairSpec == PairInit /\ [][\E x \in Artifacts : Operate(x)]_vars

----------------------------------------------------------------------------
(* Properties                                                              *)

\* The utilities the command of an operation is written to run
IntendedLogs(op) ==
    CASE op \in {"Create", "Update"} -> {<< <<"echo">> >>, << <<"echo">>, <<"tee">> >>}
      [] op = "Read" -> {<< <<"[">>, <<"cat">> >>, << <<"[">>, <<"echo">> >>, << <<"test">> >>}
      [] op = "Delete" -> {<< <<"rm">> >>}
      [] OTHER -> {<<>>}

\* The summaries under which Read reports a file that is not there
AbsentSummaries == {"Resource Not Found", "File Not Found"}

Summaries(diags) == {diags[i].summary : i \in 1..Len(diags)}

\* The call failed at the session, at the start or the end of the command, or
\* the command exited with a status other than 0
CallFailed(l) == l.fault # "none" \/ (l.issued /\ l.exit # 0)

\* C1: a Create or Update with a harmless path runs nothing but its write,
\* and when it succeeds the file holds the content as literal data (echo
\* adds the newline), whatever quotes and semicolons the content holds.
ContentWrittenLiterally ==
    (last.op \in {"Create", "Update"} /\ last.issued /\ last.path = FileA)
        => /\ last.log \in IntendedLogs(last.op)
           /\ ~HasError(last.diags) =>
                 /\ Exists(fs, FileA)
                 /\ fs[FileA] = ValueString(state.data.content) \o <<NL>>

\* C2: a command that embeds a path with a semicolon, a quote or a blank
\* runs to its end and runs nothing but the utilities of its operation.
PathStaysOneWord ==
    (last.issued /\ last.path # FileA)
        => last.exit # 2 /\ last.log \in IntendedLogs(last.op)

\* C3: after a Delete that returned no error there is no file at the path
\* of the artifact.
DeleteRemovesFile ==
    (last.op = "Delete" /\ ~HasError(last.diags)) => ~Exists(fs, last.path)

\* C4: Delete drops the artifact from the state only after a remote rm ran
\* and exited with status 0, and a Delete that failed reports an error and
\* keeps the artifact.
DroppedOnlyAfterRemoteDelete ==
    /\ (last.op = "Delete" /\ ~state.tracked)
          => last.issued /\ last.exit = 0 /\ <<"rm">> \in Range(last.log)
    /\ (last.op = "Delete" /\ CallFailed(last))
          => HasError(last.diags) /\ state.tracked

\* C5: a Delete of an artifact whose file is not on the host returns no
\* error when the session and the command channel work.
DeleteOfAbsentSucceeds ==
    (last.op = "Delete" /\ last.fault = "none" /\ ~last.present) => ~HasError(last.diags)

\* C6: after a Read that completes without error and found no file at the
\* path, the artifact is no longer in the state.
AbsentReadDropsArtifact ==
    (/\ last.op = "Read" /\ last.fault = "none" /\ ~HasError(last.diags)
     /\ last.path = FileA /\ ~last.present)
        => ~state.tracked

\* C7: a Read of an artifact whose file is not on the host adds no error
\* when the session and the command channel work.
AbsentReadAddsNoError ==
    (last.op = "Read" /\ last.fault = "none" /\ last.path = FileA /\ ~last.present)
        => ~HasError(last.diags)

\* C8: a Read whose session, command start or command completion fails
\* reports an error, leaves the state as it was, and its diagnostics carry
\* none of the summaries that report an absent file.
ProbeFailureSurfaced ==
    [][(last'.op = "Read" /\ last'.fault # "none")
          => /\ HasError(last'.diags)
             /\ state' = state
             /\ Summaries(last'.diags) \cap AbsentSummaries = {}]_vars

\* C9: a successful Read that directly follows a successful Create leaves
\* in the state the content Create stored, byte for byte.
ReadReturnsRenderedContent ==
    [][(/\ last.op = "Create" /\ ~HasError(last.diags)
        /\ last'.op = "Read" /\ ~HasError(last'.diags))
          => state'.data.content = state.data.content]_vars

\* C10: a Create or Update whose session or remote command fails reports an
\* error and leaves the state as it was before the call (untracked before a
\* Create, the former values before an Update).
FailedWriteKeepsState ==
    [][(last'.op \in {"Create", "Update"} /\ CallFailed(last'))
          => HasError(last'.diags) /\ state' = state]_vars

\* An Update whose command ran on the host and whose completion was lost:
\* the error is reported, the artifact is tracked, the file is written
FailedUpdateReached ==
    /\ last.op = "Update" /\ last.fault = "wait" /\ last.issued
    /\ HasError(last.diags)
    /\ state.tracked /\ Exists(fs, FileA)

\* C11: every Update that returns without error has issued the remote write
\* of the content (an echo whose output goes to the path).
UpdateAlwaysWrites ==
    (last.op = "Update" /\ ~HasError(last.diags))
        => last.issued /\ <<"echo">> \in Range(last.log)

\* C12: no Update changes the identity of the tracked artifact: its name
\* and its id after the call are those from before the call.
UpdateKeepsIdentity ==
    [][last'.op = "Update"
          => /\ state'.data.name = state.data.name
             /\ state'.data.id = state.data.id]_vars

\* How many times the line  listen <port>;  occurs in s
ListenLines(s, port) ==
    Cardinality({i \in 1..(Len(s) - 3) :
                    SubSeq(s, i, i + 3) = <<"listen", SP, FormatInt(port), ";">>})

\* C13: after a successful Create and a successful Update to another listen
\* port, the tracked content and the remote file both hold the line of the
\* new port once and neither holds the line of the old port.
PortUpdateTakesEffect ==
    [][(/\ last.op = "Create" /\ ~HasError(last.diags)
        /\ last'.op = "Update" /\ ~HasError(last'.diags)
        /\ last.path = FileA /\ last'.path = FileA
        /\ ValueInt64(state'.data.listen_port) # ValueInt64(state.data.listen_port))
          => /\ ListenLines(ValueString(state'.data.content),
                            ValueInt64(state'.data.listen_port)) = 1
             /\ ListenLines(ValueString(state'.data.content),
                            ValueInt64(state.data.listen_port)) = 0
             /\ Exists(fs', FileA)
             /\ ListenLines(fs'[FileA], ValueInt64(state'.data.listen_port)) = 1
             /\ ListenLines(fs'[FileA], ValueInt64(state.data.listen_port)) = 0]_vars

\* The positions of the separator in an import identifier
Colons(id) == {i \in 1..Len(id) : id[i] = ":"}

\* C14: an import whose identifier holds exactly one colon adds no error and
\* tracks the part before the colon as name and id and the part after it as
\* path.
ImportSplitsIdentifier ==
    (last.op = "Import" /\ Cardinality(Colons(last.ident)) = 1)
        => \A i \in Colons(last.ident) :
              /\ ~HasError(last.diags)
              /\ state.tracked
              /\ state.data.name = Str(SubSeq(last.ident, 1, i - 1))
              /\ state.data.id = Str(SubSeq(last.ident, 1, i - 1))
              /\ state.data.path = Str(SubSeq(last.ident, i + 1, Len(last.ident)))

\* C15: an import whose identifier holds no colon, or more than one, adds an
\* error and tracks nothing.
MalformedImportRejected ==
    (last.op = "Import" /\ Cardinality(Colons(last.ident)) # 1)
        => HasError(last.diags) /\ ~state.tracked

\* The rendering parameters the policy accepts
ValidParameters(data) ==
    /\ ValueString(data.server_name) # <<>>
    /\ ValueInt64(data.listen_port) \in 1..65535
    /\ ValueString(data.root) # <<>>

\* C16: a Create or Update with an empty server name, a listen port outside
\* 1..65535 (an unset port reads as 0) or an empty root is rejected before a
\* command is issued: no such call issues a command or returns without
\* error, so the parameters tracked after a Create or Update that issued a
\* command and returned no error are valid.
InvalidParametersRejected ==
    (last.op \in {"Create", "Update"} /\ last.issued /\ ~HasError(last.diags))
        => ValidParameters(state.data)

\* C17: every call returns: a handler that waits for its command does not
\* wait forever, even when the command never terminates.
EveryCallReturns == (blocked # "none") ~> (blocked = "none")

\* C19: a Configure that meets a host key the caller has not verified adds
\* an error and hands no client to the resources (no configuration of the
\* provider opts into accepting such a key).
UnverifiedHostKeyRefused ==
    (last.op = "Configure" /\ last.hostKey = "unverified")
        => HasError(last.diags) /\ ~client

\* The error diagnostics of a call
Errors(diags) == {diags[i] : i \in {j \in 1..Len(diags) : diags[j].sev = "error"}}

Holders == {c \in Callers : calls[c].session # 0}

\* C20: whatever the interleaving of the calls, every call holds a session
\* of its own that no other call obtained, and no session has more than one
\* command started on it.
OneCommandPerSession ==
    /\ \A c1, c2 \in Holders : c1 # c2 => calls[c1].session # calls[c2].session
    /\ \A s \in 1..Len(sessions) : sessions[s].holders = 1 /\ sessions[s].started <= 1

\* Two calls each have a command started, at the same time
TwoCommandsInFlight ==
    \E c1, c2 \in Callers :
        /\ c1 # c2
        /\ calls[c1].pc = "started" /\ calls[c2].pc = "started"
        /\ sessions[calls[c1].session].started = 1
        /\ sessions[calls[c2].session].started = 1

\* C23: the rendering is a function of the three parameters and tells them
\* apart: equal tuples render to equal blocks, tuples that differ in a
\* component render to different blocks.
RenderTellsTuplesApart ==
    rendering.done
        => /\ (rendering.p = rendering.q) => (rendering.outP = rendering.outQ)
           /\ (rendering.p # rendering.q) => (rendering.outP # rendering.outQ)

\* C25: after a Create, Read, Update or Import that succeeded, the id of a
\* tracked Config, Proxy or API object is its declared name; the id that a
\* Create gave a Site or SDK object (not an imported one) stays what it was
\* for as long as the object is tracked.
IdIsDeclaredName ==
    [][/\ (/\ kind \in {"Config", "Proxy", "API"}
           /\ last'.op \in {"Create", "Read", "Update", "Import"}
           /\ ~HasError(last'.diags) /\ state'.tracked)
             => ValueString(state'.data.id) = ValueString(state'.data.name)
       /\ (/\ kind \in {"Site", "Sdk"} /\ state.tracked /\ state'.tracked
           /\ state.data.id \notin {Str(id) : id \in ImportIDs})
             => state'.data.id = state.data.id]_vars

\* C26: a Create, Read, Update or Delete whose session cannot be created
\* issues no command, leaves the files of the host and the tracked state as
\* they were, and returns the session error.
SessionFailureTouchesNothing ==
    [][(last'.op \in {"Create", "Read", "Update", "Delete"} /\ last'.fault = "session")
          => /\ ~last'.issued /\ last'.log = <<>>
             /\ fs' = fs
             /\ state' = state
             /\ \E d \in Errors(last'.diags) : d.summary = "SSH Session Error"]_vars

\* A Delete of the API resource that failed at the session while the file
\* was there: the file and the tracked object are still there
SessionFailedDeleteReached ==
    /\ kind = "API" /\ last.op = "Delete" /\ last.fault = "session"
    /\ state.tracked /\ Exists(fs, ValueString(state.data.path))
    /\ HasError(last.diags)

\* C28: a session that is open belongs to a call that has not returned yet;
\* so with no call running, every session the connection opened is closed.
SessionsClosedOnReturn ==
    \A s \in 1..Len(sessions) :
        ~sessions[s].closed
            => \E c \in Callers : calls[c].pc # "idle" /\ calls[c].session = s

\* No call is running, and the connection has closed a session whose
\* command was started and a session whose command was not
ClosedAfterSuccessAndError ==
    /\ \A c \in Callers : calls[c].pc = "idle"
    /\ \E s \in 1..Len(sessions) : sessions[s].closed /\ sessions[s].started = 1
    /\ \E s \in 1..Len(sessions) : sessions[s].closed /\ sessions[s].started = 0

\* C22: the one command of a Read of a Config, Proxy or API object fetches
\* the content only when the file exists: cat runs only if a file is at the
\* destination path, and nothing runs besides the test, cat and echo.
ReadFetchesOnlyExisting ==
    (last.op = "Read" /\ kind \in {"Config", "Proxy", "API"} /\ last.issued)
        => /\ (<<"cat">> \in Range(last.log)) => last.present
           /\ Range(last.log) \subseteq {<<"[">>, <<"cat">>, <<"echo">>}

\* What the claim calls resolved: the attribute when set, else the variable
Resolved(attribute, variable) == IF attribute.null THEN variable ELSE attribute.v

\* The summaries of the errors owed for the values that resolve to empty
OwedSummaries(p) ==
    (IF Resolved(p.config.host, p.env.HOST) = <<>> THEN {"Missing Host"} ELSE {})
    \cup (IF Resolved(p.config.username, p.env.USERNAME) = <<>>
          THEN {"Missing Username"} ELSE {})
    \cup (IF Resolved(p.config.password, p.env.PASSWORD) = <<>>
          THEN {"Missing Password"} ELSE {})

\* C24: Configure reports one error for each of host, username and password
\* that resolves to empty and then attempts no connection; it attempts at
\* most one connection, and when that attempt fails it reports an error and
\* hands out no client.
ConfigureFailsFast ==
    provider.configured
        => /\ provider.dials <= 1
           /\ OwedSummaries(provider) # {}
                => /\ Summaries(provider.diags) = OwedSummaries(provider)
                   /\ Len(provider.diags) = Cardinality(OwedSummaries(provider))
                   /\ provider.dials = 0 /\ ~provider.client
           /\ (OwedSummaries(provider) = {} /\ provider.fault = "dial")
                => HasError(provider.diags) /\ ~provider.client

\* The host comes from the environment, the username from the attribute,
\* and the password resolves to empty: one error, no connection attempt
MissingPasswordReached ==
    /\ provider.configured
    /\ provider.config.host.null /\ provider.env.HOST # <<>>
    /\ ~provider.config.username.null
    /\ Summaries(provider.diags) = {"Missing Password"}
    /\ provider.dials = 0

\* C27: a Read of a Config, Proxy or API object that returns without error
\* reports null content exactly if no file is at the destination path,
\* whatever an existing file holds.
AbsentExactlyWhenNoFile ==
    (/\ last.op = "Read" /\ kind \in {"Config", "Proxy", "API"}
     /\ last.path = FileA /\ ~HasError(last.diags))
        => (state.data.content.null <=> ~last.present)

FileOf(files, path) == IF Exists(files, path) THEN <<files[path]>> ELSE <<>>

\* C21: a call for one of two objects with names and paths of their own
\* changes neither the tracked state nor the file of the other, whether it
\* fails or not; and the state and the file of every object are those it
\* has on a host that serves this object alone.
ObjectsIsolated ==
    [][pair'.actor # "none"
          => /\ \A y \in Artifacts \ {pair'.actor} :
                   /\ pair'.objs[y] = pair.objs[y]
                   /\ FileOf(fs', OwnPath(y)) = FileOf(fs, OwnPath(y))
             /\ \A x \in Artifacts :
                   /\ pair'.objs[x].state = pair'.objs[x].soloState
                   /\ FileOf(fs', OwnPath(x)) = FileOf(pair'.objs[x].solo, OwnPath(x))]_vars

====
